---- MODULE Spec2Model ----
(***************************************************************************)
(* ble-pics-viewer.py: the PICS advertisement decoder (process_pics) and   *)
(* the BLE detection callback that retains the last record, the last       *)
(* signal record and a five-entry history, and redraws the terminal.       *)
(*                                                                         *)
(* A payload is a sequence of bytes 0..255; Python's data[i] is data[i+1]  *)
(* here.  Time is counted in whole seconds.  A text is the sequence of its *)
(* code points; a hex string is the sequence of its characters.            *)
(***************************************************************************)
EXTENDS Integers, Sequences, FiniteSets, TLC

VARIABLES latest_info, latest_raw, latest_timestamp, last_signal_info,
          log_history, clock, advertisement, raised, screen, pc, frame,
          appends

vars == <<latest_info, latest_raw, latest_timestamp, last_signal_info,
          log_history, clock, advertisement, raised, screen, pc, frame,
          appends>>

globals == <<latest_info, latest_raw, latest_timestamp, last_signal_info,
             log_history>>

(* ---------------------------- Python values --------------------------- *)

\* Python's None, the initial value of the four module globals.
None == [none |-> TRUE]

Min(a, b) == IF a <= b THEN a ELSE b

(* ------------------------------- bounds ------------------------------- *)

\* The latest clock reading the model follows.
MaxTime == 31

\* How many appends to log_history are counted before the count saturates.
MaxAppends == 6

\* data[a:b] for 0 <= a <= b: clipped to the list, never an error.
Slice(data, a, b) == SubSeq(data, a + 1, Min(b, Len(data)))

\* A normal return of value v, and an exception of class e escaping at line l.
Return(v) == [exc |-> "none", val |-> v]

Raise(e, l) == [exc |-> e, line |-> l]

(* ------------------------------ process_pics -------------------------- *)

HexDigits == <<"0", "1", "2", "3", "4", "5", "6", "7",
               "8", "9", "A", "B", "C", "D", "E", "F">>

\* hex(num)[2:].upper(): the digits of num without leading zeros ("0" for 0).
RECURSIVE HexUpper(_)
HexUpper(num) ==
    IF num < 16 THEN <<HexDigits[num + 1]>>
    ELSE HexUpper(num \div 16) \o <<HexDigits[(num % 16) + 1]>>

\* str.zfill(width): zeros on the left up to width, longer strings unchanged.
RECURSIVE zfill(_, _)
zfill(s, width) == IF Len(s) >= width THEN s ELSE zfill(<<"0">> \o s, width)

\* "".join(parts)
RECURSIVE join(_)
join(parts) == IF parts = <<>> THEN <<>> ELSE Head(parts) \o join(Tail(parts))

intersection_id(data) ==
    LET bs == Slice(data, 6, 10)
    IN  join([k \in 1..Len(bs) |-> zfill(HexUpper(bs[k]), 2)])

IsCont(b) == b >= 128 /\ b <= 191

\* The number of bytes a UTF-8 lead byte announces (0: not a lead byte).
Utf8Need(b) ==
    IF b < 128 THEN 1
    ELSE IF b >= 194 /\ b <= 223 THEN 2
    ELSE IF b >= 224 /\ b <= 239 THEN 3
    ELSE IF b >= 240 /\ b <= 244 THEN 4
    ELSE 0

\* Whether c may follow lead byte b as its second byte (overlong forms,
\* surrogates and code points above U+10FFFF are refused here).
Utf8Second(b, c) ==
    IF b = 224 THEN c >= 160 /\ c <= 191
    ELSE IF b = 237 THEN c >= 128 /\ c <= 159
    ELSE IF b = 240 THEN c >= 144 /\ c <= 191
    ELSE IF b = 244 THEN c >= 128 /\ c <= 143
    ELSE IsCont(c)

\* How many bytes after the lead byte bs[1] continue its sequence validly.
Utf8Good(bs) ==
    LET need == Utf8Need(bs[1])
        ok2  == Len(bs) >= 2 /\ Utf8Second(bs[1], bs[2])
        ok3  == ok2 /\ Len(bs) >= 3 /\ IsCont(bs[3])
        ok4  == ok3 /\ Len(bs) >= 4 /\ IsCont(bs[4])
    IN  IF need >= 4 /\ ok4 THEN 3
        ELSE IF need >= 3 /\ ok3 THEN 2
        ELSE IF need >= 2 /\ ok2 THEN 1
        ELSE 0

Utf8Point(bs, need) ==
    IF need = 1 THEN bs[1]
    ELSE IF need = 2 THEN (bs[1] % 32) * 64 + (bs[2] % 64)
    ELSE IF need = 3 THEN (bs[1] % 16) * 4096 + (bs[2] % 64) * 64 + (bs[3] % 64)
    ELSE (bs[1] % 8) * 262144 + (bs[2] % 64) * 4096 + (bs[3] % 64) * 64
         + (bs[4] % 64)

\* bytes.decode(errors='ignore'): UTF-8, every undecodable run of bytes dropped.
RECURSIVE decode_ignore(_)
decode_ignore(bs) ==
    IF bs = <<>> THEN <<>>
    ELSE LET need == Utf8Need(bs[1])
             good == Utf8Good(bs)
         IN  IF need = 0 THEN decode_ignore(Tail(bs))
             ELSE IF good + 1 >= need
                  THEN <<Utf8Point(bs, need)>>
                       \o decode_ignore(SubSeq(bs, need + 1, Len(bs)))
             ELSE decode_ignore(SubSeq(bs, good + 2, Len(bs)))

\* str.strip('\x00'): NUL characters removed at both ends.
RECURSIVE lstrip_nul(_)
lstrip_nul(s) ==
    IF s # <<>> /\ Head(s) = 0 THEN lstrip_nul(Tail(s)) ELSE s

RECURSIVE rstrip_nul(_)
rstrip_nul(s) ==
    IF s # <<>> /\ s[Len(s)] = 0 THEN rstrip_nul(SubSeq(s, 1, Len(s) - 1))
    ELSE s

\* NUL characters removed at the end only, as str.rstrip would.
strip_nul_trailing(s) == rstrip_nul(s)

strip_nul(s) == rstrip_nul(lstrip_nul(s))

\* struct.unpack('<i', bs)[0]: the same four bytes read little-endian.
unpack_i_little(bs) ==
    LET high == IF bs[4] >= 128 THEN bs[4] - 256 ELSE bs[4]
    IN  ((high * 256 + bs[3]) * 256 + bs[2]) * 256 + bs[1]

\* struct.unpack('>i', bs)[0]: exactly four bytes, big-endian, two's complement.
\* The top bit of the first byte is the sign: that byte weighs -2^24 * 128.
unpack_i(bs) ==
    LET high == IF bs[1] >= 128 THEN bs[1] - 256 ELSE bs[1]
    IN  ((high * 256 + bs[2]) * 256 + bs[3]) * 256 + bs[4]

\* A reading that takes the bytes missing from a short payload as zero.
unpack_at_padded(data, a, line) ==
    Return(unpack_i(Slice(data \o [k \in 1..18 |-> 0], a, a + 4)))

\* struct.unpack('>i', bytes(data[a:a+4]))[0] at the given source line:
\* struct.error unless the slice holds four bytes.
unpack_at(data, a, line) ==
    IF Len(Slice(data, a, a + 4)) # 4 THEN Raise("struct.error", line)
    ELSE Return(unpack_i(Slice(data, a, a + 4)))

\* x / 1_000_000 kept exact, as numerator over denominator.
MicroDegrees(n) == [num |-> n, den |-> 1000000]

StateNames == <<"NoSignal", "Red", "BlinkGreen", "Green", "None">>

\* Nibble 4 falls to the default instead of 'None'.
signal_state_name_short(signal_state) ==
    IF signal_state < 4 THEN StateNames[signal_state + 1] ELSE "Unknown"

signal_state_name(signal_state) ==
    IF signal_state <= 4 THEN StateNames[signal_state + 1] ELSE "Unknown"

\* The high nibble taken as the seconds themselves, without the + 1.
SignalPhase_raw_seconds(signal_byte) ==
    LET remaining_time == (signal_byte \div 16) % 16
        signal_state   == signal_byte % 16
    IN  [remaining_time |-> IF remaining_time >= 8 THEN -1
                            ELSE remaining_time,
         signal_state   |-> IF signal_state <= 4
                            THEN StateNames[signal_state + 1]
                            ELSE "Unknown"]

\* One entry of pedestrian_signals, from one signal byte.
SignalPhase(signal_byte) ==
    LET remaining_time == (signal_byte \div 16) % 16
        signal_state   == signal_byte % 16
    IN  [remaining_time |-> IF remaining_time >= 8 THEN -1
                            ELSE remaining_time + 1,
         signal_state   |-> signal_state_name(signal_state)]

\* Always six phases, the missing bytes read as zero.
PhasesFrom_zero_filled(data, i) ==
    [k \in 1..6 |-> SignalPhase(IF 10 + k <= Len(data) THEN data[10 + k]
                                ELSE 0)]

\* The loop over range(6): a phase for every offset 10+i inside the payload.
RECURSIVE PhasesFrom(_, _)
PhasesFrom(data, i) ==
    IF i >= 6 THEN <<>>
    ELSE (IF 10 + i < Len(data) THEN <<SignalPhase(data[10 + i + 1])>>
          ELSE <<>>) \o PhasesFrom(data, i + 1)

pedestrian_signals(data) == PhasesFrom(data, 0)

process_pics(data) ==
    IF Len(data) < 3 THEN Raise("IndexError", 11)
    ELSE IF Len(data) < 4 THEN Raise("IndexError", 13)
    ELSE
      LET msg_type == data[3]
          base == [message_type    |-> msg_type,
                   message_id      |-> data[4],
                   intersection_id |-> intersection_id(data)]
      IN  IF msg_type = 0 THEN
            Return([message_type    |-> base.message_type,
                    message_id      |-> base.message_id,
                    intersection_id |-> base.intersection_id,
                    identifier      |->
                        strip_nul(decode_ignore(Slice(data, 10, 24)))])
          ELSE IF msg_type = 1 THEN
            LET lat == unpack_at(data, 10, 20)
                lon == unpack_at(data, 14, 21)
            IN  IF lat.exc # "none" THEN lat
                ELSE IF lon.exc # "none" THEN lon
                ELSE
                  Return([message_type    |-> base.message_type,
                          message_id      |-> base.message_id,
                          intersection_id |-> base.intersection_id,
                          latitude        |-> MicroDegrees(lat.val),
                          longitude       |-> MicroDegrees(lon.val)])
          ELSE IF msg_type = 2 THEN
            Return([message_type       |-> base.message_type,
                    message_id         |-> base.message_id,
                    intersection_id    |-> base.intersection_id,
                    pedestrian_signals |-> pedestrian_signals(data)])
          ELSE Return(base)

(* ------------------------------ state_symbol -------------------------- *)

\* The terminal glyph of a signal state; emoji are written by code point.
state_symbol(state) ==
    IF state = "NoSignal" THEN " "
    ELSE IF state = "Red" THEN "U+1F534"
    ELSE IF state = "BlinkGreen" THEN "U+1F7E2(B)"
    ELSE IF state = "Green" THEN "U+1F7E2"
    ELSE IF state = "None" THEN "U+30FB"
    ELSE "?"

(* --------------------- module globals and the deque ------------------- *)

\* log_history = deque(maxlen=5)
maxlen == 5

\* A bounded deque that, when full, gives up its newest item for the new one.
deque_append_drop_newest(q, x) ==
    IF Len(q) >= maxlen THEN SubSeq(q, 1, Len(q) - 1) \o <<x>> ELSE q \o <<x>>

\* deque.appendleft: the new item goes in front, a full deque drops its last.
deque_appendleft(q, x) ==
    IF Len(q) >= maxlen THEN <<x>> \o SubSeq(q, 1, Len(q) - 1) ELSE <<x>> \o q

\* deque.append on a bounded deque: a full deque drops its leftmost item.
deque_append(q, x) ==
    IF Len(q) >= maxlen THEN SubSeq(q, 2, Len(q)) \o <<x>> ELSE q \o <<x>>

\* The five module globals as one value.
G == [latest_info      |-> latest_info,
      latest_raw       |-> latest_raw,
      latest_timestamp |-> latest_timestamp,
      last_signal_info |-> last_signal_info,
      log_history      |-> log_history]

\* Python truthiness of None or a dict.
Truthy(v) == v # None /\ DOMAIN v # {}

(* --------------------- detection_callback, by blocks ------------------ *)

PICS_VENDOR == 462   \* 0x01CE

\* A loop without the vendor test: every entry runs the body.
pics_entries_unfiltered(manufacturer_data) == manufacturer_data

\* The entries of manufacturer_data that pass the vendor test of the loop.
pics_entries(manufacturer_data) ==
    SelectSeq(manufacturer_data, LAMBDA item : ~(item[1] # PICS_VENDOR))

\* The record and its time are stored, the raw bytes are not.
store_latest_without_raw(g, pics_info, data, t) ==
    [g EXCEPT !.latest_info = pics_info,
              !.latest_timestamp = t]

\* Only records of the three known message types are stored.
store_latest_known_only(g, pics_info, data, t) ==
    IF pics_info.message_type \in {0, 1, 2}
    THEN [g EXCEPT !.latest_info = pics_info,
                   !.latest_raw = data,
                   !.latest_timestamp = t]
    ELSE g

\* latest_info, latest_raw, latest_timestamp = pics_info, data, datetime.now()
store_latest(g, pics_info, data, t) ==
    [g EXCEPT !.latest_info = pics_info,
              !.latest_raw = data,
              !.latest_timestamp = t]

\* pics_info.get('message_type') == 2: whether the signal branch is entered.
is_signal(pics_info) ==
    "message_type" \in DOMAIN pics_info /\ pics_info.message_type = 2

\* The assignment forgotten: the held record stays the old one.
hold_signal_forgotten(g, pics_info) == g

\* last_signal_info = pics_info
hold_signal(g, pics_info) == [g EXCEPT !.last_signal_info = pics_info]

\* s1, s2 = the first two phases; log_history.append({time, s1, s2}).
log_signal(g, pics_info) ==
    LET ps == pics_info.pedestrian_signals
    IN  IF Len(ps) < 1 THEN Raise("IndexError", 83)
        ELSE IF Len(ps) < 2 THEN Raise("IndexError", 84)
        ELSE Return([g EXCEPT !.log_history =
                 deque_append(@, [time |-> g.latest_timestamp,
                                  s1 |-> ps[1], s2 |-> ps[2]])])

\* strftime('%H:%M:%S.%f')[:-3]: the time of day; the date is not printed.
strftime(t) == t % 86400

\* One printed row: time | west | north | (remaining, remaining).
row(t, s1, s2) ==
    [t         |-> strftime(t),
     west      |-> state_symbol(s1.signal_state),
     north     |-> state_symbol(s2.signal_state),
     remaining |-> <<s1.remaining_time, s2.remaining_time>>]

\* The line printed while no signal record is held.
Waiting == [text |-> "(waiting...)"]

\* The current-signal block: the held signal's first two phases, or the
\* waiting line while no signal record is held.
print_current(g) ==
    IF Truthy(g.last_signal_info) THEN
        LET ps == g.last_signal_info.pedestrian_signals
        IN  IF Len(ps) < 1 THEN Raise("IndexError", 95)
            ELSE IF Len(ps) < 2 THEN Raise("IndexError", 96)
            ELSE Return(<<row(g.latest_timestamp, ps[1], ps[2])>>)
    ELSE Return(<<Waiting>>)

WINDOW == 30   \* timedelta(seconds=30)

\* The window test with a strict comparison.
recent_entries_strict(history, now) ==
    SelectSeq(history, LAMBDA entry : now - entry.time < WINDOW)

\* Only the entries that are older than the reading itself are kept.
recent_entries_past(history, now) ==
    SelectSeq(history, LAMBDA entry : /\ now - entry.time > 0
                                      /\ now - entry.time <= WINDOW)

\* recent_entries: the stored entries no older than the window, in order.
recent_entries(history, now) ==
    SelectSeq(history, LAMBDA entry : now - entry.time <= WINDOW)

print_history(entries) ==
    [k \in 1..Len(entries) |-> row(entries[k].time, entries[k].s1, entries[k].s2)]

\* The terminal after os.system("clear") and the header lines.
Cleared == [current |-> <<>>, recent |-> <<>>, history |-> <<>>]

\* No exception has escaped.
Quiet == [exc |-> "none", line |-> 0]

\* The callback as a machine: the globals, the terminal, the last clock
\* reading, the escaped exception, the next block to run and the locals;
\* appends counts the calls of log_history.append (a history variable).
M == [g |-> G, screen |-> screen, clock |-> clock, raised |-> raised,
      pc |-> pc, frame |-> frame, appends |-> appends]

\* An exception leaves the callback: the globals stay as they are now.
escape(m, r) == [m EXCEPT !.raised = [exc |-> r.exc, line |-> r.line],
                          !.pc = "idle", !.frame = None]

leave(m) == [m EXCEPT !.pc = "idle", !.frame = None]

\* The loop head, process_pics and the three latest_* assignments; t is
\* what datetime.now() returns.  A dict has one entry per manufacturer id,
\* so at most one entry passes the vendor test and runs the loop body.
cb_enter(m, manufacturer_data, t) ==
    LET mine == pics_entries(manufacturer_data)
        m0   == [m EXCEPT !.raised = Quiet]
    IN  IF mine = <<>> THEN leave(m0)
        ELSE LET data == mine[1][2]
                 r    == process_pics(data)
             IN  IF r.exc # "none" THEN escape(m0, r)
                 ELSE IF ~Truthy(r.val) THEN leave(m0)
                 ELSE [m0 EXCEPT !.g = store_latest(@, r.val, data, t),
                                !.clock = t,
                                !.pc = "hold",
                                !.frame = [data |-> data, pics_info |-> r.val]]

\* The signal held, the history append left for after the redraw.
cb_hold_then_draw(m) ==
    IF is_signal(m.frame.pics_info)
    THEN [m EXCEPT !.g = hold_signal(@, m.frame.pics_info), !.pc = "draw"]
    ELSE [m EXCEPT !.pc = "draw"]

\* if message_type == 2: last_signal_info = pics_info
cb_hold(m) ==
    IF is_signal(m.frame.pics_info)
    THEN [m EXCEPT !.g = hold_signal(@, m.frame.pics_info), !.pc = "log"]
    ELSE [m EXCEPT !.pc = "draw"]

\* s1 = ...[0]; s2 = ...[1]; log_history.append(...)
cb_log(m) ==
    LET r == log_signal(m.g, m.frame.pics_info)
    IN  IF r.exc # "none" THEN escape(m, r)
        ELSE [m EXCEPT !.g = r.val, !.pc = "draw",
                       !.appends = Min(@ + 1, MaxAppends)]

\* os.system("clear"), the header and the current-signal block.
cb_draw(m) ==
    LET r == print_current(m.g)
    IN  IF r.exc # "none" THEN escape([m EXCEPT !.screen = Cleared], r)
        ELSE [m EXCEPT !.screen = [Cleared EXCEPT !.current = r.val],
                       !.pc = "recent"]

\* now = datetime.now(); the history block.  The loop then ends.
cb_recent(m, now) ==
    LET entries == recent_entries(m.g.log_history, now)
    IN  leave([m EXCEPT !.clock = now,
                        !.screen = [@ EXCEPT !.recent = entries,
                                             !.history = print_history(entries)]])

\* One whole invocation of detection_callback.
run_callback(m, manufacturer_data, t, now) ==
    LET m1 == cb_enter(m, manufacturer_data, t)
        m2 == IF m1.pc = "hold" THEN cb_hold(m1) ELSE m1
        m3 == IF m2.pc = "log" THEN cb_log(m2) ELSE m2
        m4 == IF m3.pc = "draw" THEN cb_draw(m3) ELSE m3
    IN  IF m4.pc = "recent" THEN cb_recent(m4, now) ELSE m4

(* ------------------------------- inputs ------------------------------- *)

\* The ten header bytes: type at offset 2, id at 3, intersection at 6..9.
Header(msg_type) == <<2, 1, msg_type, 42, 0, 0, 10, 188, 0, 255>>

\* A payload of the given type and length: the header and then the body,
\* cut to length.
Payload(msg_type, body, length) ==
    SubSeq(Header(msg_type) \o body, 1, length)

\* Signal bytes: 0x13 green 2 s, 0x81 red unknown, 0x02 blinking 1 s, ...
SignalBodyA == <<19, 129>>

SignalBodyB == <<2, 117, 52, 240, 9, 16, 19>>

IdentifierBody == <<0, 80, 0, 195, 169, 255, 0, 0>>

\* 35.681236 N (0x02207354), -0.127758 (0xFFFE0CF2)
LocationBody == <<2, 32, 115, 84, 255, 254, 12, 242>>

\* 0x004C, another manufacturer's id
OTHER_VENDOR == 4 * 16 + 12

Only(vendor, data) == <<<<vendor, data>>>>

\* The payloads of the tracker scenarios.
TrackerPayloads ==
    { Payload(2, <<>>, 3),
      Payload(0, IdentifierBody, 18),
      Payload(1, LocationBody, 17),
      Payload(1, LocationBody, 18),
      Payload(2, SignalBodyA, 10),
      Payload(2, SignalBodyA, 11),
      Payload(2, SignalBodyA, 12),
      Payload(2, SignalBodyB, 17),
      Payload(3, SignalBodyA, 12) }

TrackerAds ==
    { Only(PICS_VENDOR, p) : p \in TrackerPayloads }
    \cup { <<>>,
           Only(OTHER_VENDOR, Payload(2, SignalBodyB, 17)),
           <<<<OTHER_VENDOR, Payload(2, SignalBodyB, 17)>>,
             <<PICS_VENDOR, Payload(2, SignalBodyA, 12)>>>>,
           <<<<PICS_VENDOR, Payload(0, IdentifierBody, 18)>>,
             <<OTHER_VENDOR, Payload(2, SignalBodyA, 12)>>>> }

\* Header lengths 0..9 and location lengths 10..MaxLength.
MaxLength == 19

HeaderLengths == 0..9

MessageTypes == {0, 1, 2, 3}

TruncPayloads ==
    { Payload(t, <<>>, n) : t \in MessageTypes, n \in HeaderLengths }
    \cup { Payload(1, LocationBody \o <<7, 7, 7>>, n) : n \in 10..MaxLength }
    \cup { Payload(2, SignalBodyA, 12) }

TruncAds == { Only(PICS_VENDOR, p) : p \in TruncPayloads }

WindowAds ==
    { Only(PICS_VENDOR, Payload(2, SignalBodyA, 12)),
      Only(PICS_VENDOR, Payload(2, SignalBodyB, 17)),
      Only(PICS_VENDOR, Payload(0, IdentifierBody, 18)) }

\* 15 + 15 is the window exactly, 15 + 16 is one second past it.
WindowDelays == {0, 15, 16}

\* The redraw may also take longer than the window.
RedrawDelays == WindowDelays \cup {31}

StepAds ==
    { Only(PICS_VENDOR, Payload(2, SignalBodyA, 12)),
      Only(PICS_VENDOR, Payload(2, SignalBodyB, 17)),
      Only(PICS_VENDOR, Payload(2, SignalBodyA, 11)),
      Only(PICS_VENDOR, Payload(0, IdentifierBody, 18)),
      Only(PICS_VENDOR, Payload(1, LocationBody, 17)),
      Only(OTHER_VENDOR, Payload(2, SignalBodyB, 17)) }

\* Message types the decoder has no branch for, at and past the header.
UnknownTypes == {3, 4, 255}

TypesAds ==
    { Only(PICS_VENDOR, Payload(t, SignalBodyB, n)) :
          t \in UnknownTypes, n \in {10, 14} }
    \cup { Only(PICS_VENDOR, Payload(2, SignalBodyA, 12)),
           Only(PICS_VENDOR, Payload(2, SignalBodyB, 17)),
           Only(PICS_VENDOR, Payload(2, SignalBodyA, 11)),
           Only(PICS_VENDOR, Payload(0, IdentifierBody, 18)),
           Only(PICS_VENDOR, Payload(1, LocationBody, 18)) }

Bytes == 0..255

\* Signal payloads of every length from the bare header to past phase 6.
SignalPayloads ==
    { Payload(2, SignalBodyB \o <<200, 33, 34>>, n) : n \in 10..19 }

\* One signal byte of every value.
SignalBytePayloads == { Payload(2, <<b>>, 11) : b \in Bytes }

\* NUL, "A", the two bytes of U+00E9, and a byte no UTF-8 text contains.
TextBytes == {0, 65, 195, 169, 255}

TextBodies ==
    { <<>> } \cup { <<a>> : a \in TextBytes }
    \cup { <<a, b>> : a \in TextBytes, b \in TextBytes }
    \cup { <<a, b, c>> : a \in TextBytes, b \in TextBytes, c \in TextBytes }
    \cup { <<0, 0, 80, 73, 67, 83, 0, 45, 48, 49, 0, 0, 0, 0, 90, 90>>,
           <<80, 73, 67, 83, 45, 48, 49, 50, 51, 52, 53, 54, 55, 195, 169>> }

IdentifierPayloads == { Payload(0, body, 10 + Len(body)) : body \in TextBodies }

\* 1.0 and -0.000001; the largest and the smallest; 0.00001 and 35.681236.
CoordinateBodies ==
    { <<0, 15, 66, 64, 255, 255, 255, 255>>,
      <<127, 255, 255, 255, 128, 0, 0, 0>>,
      <<0, 0, 0, 10, 2, 32, 115, 84>>,
      LocationBody }

CoordinatePayloads ==
    { Payload(1, body \o <<9>>, n) : body \in CoordinateBodies, n \in {18, 19} }

DecodeAds ==
    { Only(PICS_VENDOR, p) :
          p \in SignalPayloads \cup SignalBytePayloads
                \cup IdentifierPayloads \cup CoordinatePayloads }

\* Seconds between two callbacks, and between the two clock readings of one.
TrackerDelays == {0, 20}

Prompt == {0}

(* ------------------------------ the program --------------------------- *)

Init ==
    /\ latest_info = None
    /\ latest_raw = None
    /\ latest_timestamp = None
    /\ last_signal_info = None
    /\ log_history = <<>>
    /\ clock = 0
    /\ advertisement = <<>>
    /\ raised = Quiet
    /\ screen = [current |-> <<>>, recent |-> <<>>, history |-> <<>>]
    /\ pc = "idle"
    /\ frame = None
    /\ appends = 0

\* The variables take the machine's values.
Becomes(m) ==
    /\ latest_info' = m.g.latest_info
    /\ latest_raw' = m.g.latest_raw
    /\ latest_timestamp' = m.g.latest_timestamp
    /\ last_signal_info' = m.g.last_signal_info
    /\ log_history' = m.g.log_history
    /\ clock' = m.clock
    /\ raised' = m.raised
    /\ screen' = m.screen
    /\ pc' = m.pc
    /\ frame' = m.frame
    /\ appends' = m.appends

\* The scanner delivers one advertisement and the callback runs to its end;
\* the clock has advanced by d1 at the first reading, by d2 more at the second.
detection_callback(ads, delays, render_delays) ==
    /\ pc = "idle"
    /\ \E ad \in ads, d1 \in delays, d2 \in render_delays :
         /\ clock + d1 + d2 <= MaxTime
         /\ advertisement' = ad
         /\ Becomes(run_callback(M, ad, clock + d1, clock + d1 + d2))

Next == detection_callback(TrackerAds, TrackerDelays, Prompt)

Spec == Init /\ [][Next]_vars

\* Short payloads: every header length with every message type, and every
\* length of a location payload around its eight coordinate bytes.
NextTrunc == detection_callback(TruncAds, Prompt, Prompt)

SpecTrunc == Init /\ [][NextTrunc]_vars

\* A slow clock and a slow terminal: the history window at its boundary.
NextWindow == detection_callback(WindowAds, WindowDelays, RedrawDelays)

SpecWindow == Init /\ [][NextWindow]_vars

\* Records of message types the decoder does not know, among the others.
NextTypes == detection_callback(TypesAds, TrackerDelays, Prompt)

SpecTypes == Init /\ [][NextTypes]_vars

\* The first advertisement after the start: the decoder on each payload.
first_callback(ads) ==
    /\ latest_raw = None
    /\ raised = Quiet
    /\ detection_callback(ads, Prompt, Prompt)

NextFirst == first_callback(DecodeAds)

SpecFirst == Init /\ [][NextFirst]_vars

(* The callback block by block.  detection_callback is a plain function     *)
(* called on the event loop's thread: an invocation runs to its end before  *)
(* the next one starts, and the blocks run in program order.                *)

StepEnter(ads, delays) ==
    /\ pc = "idle"
    /\ \E ad \in ads, d1 \in delays :
         /\ clock + d1 <= MaxTime
         /\ advertisement' = ad
         /\ Becomes(cb_enter(M, ad, clock + d1))

StepHold == pc = "hold" /\ Becomes(cb_hold(M)) /\ UNCHANGED advertisement

StepLog == pc = "log" /\ Becomes(cb_log(M)) /\ UNCHANGED advertisement

StepDraw == pc = "draw" /\ Becomes(cb_draw(M)) /\ UNCHANGED advertisement

StepRecent(delays) ==
    /\ pc = "recent"
    /\ \E d2 \in delays :
         /\ clock + d2 <= MaxTime
         /\ Becomes(cb_recent(M, clock + d2))
    /\ UNCHANGED advertisement

NextSteps ==
    \/ StepEnter(StepAds, TrackerDelays)
    \/ StepHold
    \/ StepLog
    \/ StepDraw
    \/ StepRecent(Prompt)

SpecSteps == Init /\ [][NextSteps]_vars

(* ------------------------------ properties ---------------------------- *)

\* The advertisement carries an entry of the PICS vendor, 0x01CE.
HasPics(ad) == \E k \in 1..Len(ad) : ad[k][1] = 462

\* The payload of that entry.
PicsData(ad) == ad[CHOOSE k \in 1..Len(ad) : ad[k][1] = 462][2]

\* The advertisement decodes to a record.
Decodes(ad) == HasPics(ad) /\ process_pics(PicsData(ad)).exc = "none"

Decoded(ad) == process_pics(PicsData(ad)).val

\* The advertisement decodes to a record of message type 2.
SignalEvent(ad) == Decodes(ad) /\ Decoded(ad).message_type = 2

Last(q) == q[Len(q)]

\* The entry that the ingest at time t of signal record rec creates.
EntryOf(rec, t) ==
    [time |-> t, s1 |-> rec.pedestrian_signals[1],
     s2 |-> rec.pedestrian_signals[2]]

\* C1: hold-last-value.  A callback that decodes a type-2 record leaves it in
\* last_signal_info; any other callback (another type, a failed decode, no
\* PICS entry) leaves last_signal_info and log_history as they were, and when
\* the held record has two phases the redraw of a non-signal record still
\* prints the held record's phases 0 and 1.
C1_HoldLastValue ==
    [][LET ad == advertisement'
       IN  /\ SignalEvent(ad) => last_signal_info' = Decoded(ad)
           /\ ~SignalEvent(ad) =>
                /\ last_signal_info' = last_signal_info
                /\ log_history' = log_history
           /\ ( /\ Decodes(ad)
                /\ ~SignalEvent(ad)
                /\ last_signal_info # None
                /\ Len(last_signal_info.pedestrian_signals) >= 2 ) =>
                screen'.current =
                    <<row(latest_timestamp',
                          last_signal_info.pedestrian_signals[1],
                          last_signal_info.pedestrian_signals[2])>>
      ]_vars

\* An identifier record arrives 20 s after a signal record: the signal
\* record is still held and still drawn.
C1_Witness ==
    /\ advertisement = Only(PICS_VENDOR, Payload(0, IdentifierBody, 18))
    /\ latest_info.message_type = 0
    /\ latest_timestamp = 20
    /\ last_signal_info # None
    /\ last_signal_info.message_type = 2
    /\ log_history # <<>>
    /\ Last(log_history).time = 0
    /\ Last(log_history) = EntryOf(last_signal_info, 0)
    /\ screen.current = <<row(20, last_signal_info.pedestrian_signals[1],
                              last_signal_info.pedestrian_signals[2])>>

\* C2: log_history is a FIFO of capacity 5.  It never holds more than 5
\* entries, and the ingest of a signal record with at least 2 phases puts
\* that record's entry at the end, after dropping the oldest entry when 5
\* are already held; the others keep their order.
C2_HistoryFifo ==
    /\ [](Len(log_history) <= 5)
    /\ [][LET ad == advertisement'
          IN  ( /\ SignalEvent(ad)
                /\ Len(Decoded(ad).pedestrian_signals) >= 2 ) =>
                log_history' =
                    (IF Len(log_history) >= 5 THEN Tail(log_history)
                     ELSE log_history)
                    \o <<EntryOf(Decoded(ad), latest_timestamp')>>
         ]_vars

\* At least six appends: five entries are held, the first one is gone, and
\* the held entries are not all alike.
C2_Witness ==
    /\ appends >= 6
    /\ Len(log_history) = 5
    /\ log_history[1] # log_history[2]
    /\ log_history[1].time = 0
    /\ log_history[5].time = 20

\* C3: no callback ends with an exception that nothing handles.
C3_NoFatalErrors == raised.exc = "none"

\* C5: the ingest of a type-2 record with 0 or 1 phases (payload length 10
\* or 11) makes it latest_info and last_signal_info, leaves log_history as
\* it was, and completes normally.
C5_ShortSignalIngest ==
    [][LET ad == advertisement'
       IN  ( /\ SignalEvent(ad)
             /\ Len(PicsData(ad)) \in {10, 11} ) =>
             /\ latest_info' = Decoded(ad)
             /\ last_signal_info' = Decoded(ad)
             /\ log_history' = log_history
             /\ raised'.exc = "none"
      ]_vars

\* C6: the current-signal block shows phases 0 and 1 of the held signal
\* record when one is held and has at least 2 phases, and the waiting line
\* otherwise.
C6_CurrentDisplay ==
    print_current(G) =
        Return(IF /\ last_signal_info # None
                  /\ Len(last_signal_info.pedestrian_signals) >= 2
               THEN <<row(latest_timestamp,
                          last_signal_info.pedestrian_signals[1],
                          last_signal_info.pedestrian_signals[2])>>
               ELSE <<Waiting>>)

\* C7: the vendor filter.  An advertisement without an entry of vendor
\* 0x01CE changes no global and not the terminal, whatever its payloads are;
\* one with such an entry is parsed: the outcome is the one process_pics has
\* on that entry's payload, and the other entries have no part in it.
C7_VendorFilter ==
    [][LET ad == advertisement'
       IN  /\ ~HasPics(ad) =>
                /\ globals' = globals
                /\ screen' = screen
                /\ raised'.exc = "none"
           /\ HasPics(ad) =>
                LET r == process_pics(PicsData(ad))
                IN  IF r.exc = "none"
                    THEN latest_info' = r.val /\ latest_raw' = PicsData(ad)
                    ELSE raised'.exc = r.exc /\ globals' = globals
      ]_vars

\* Another vendor's advertisement, with a payload that would decode as a
\* signal record, arrives after an identifier record and changes nothing.
C7_Witness ==
    /\ advertisement = Only(OTHER_VENDOR, Payload(2, SignalBodyB, 17))
    /\ latest_info # None
    /\ latest_info.message_type = 0
    /\ last_signal_info = None
    /\ screen.current = <<Waiting>>

\* C8: every retained record carries an intersection_id of exactly 8 hex
\* digits, a payload shorter than the 10 header bytes giving no record.
C8_HeaderTruncation ==
    latest_info # None => Len(latest_info.intersection_id) = 8

\* C9: a type-1 payload of length 10..17 gives no record: the decode fails
\* and the globals and the terminal stay as they were; a type-1 payload of
\* length 18 or more gives a location record, which becomes latest_info.
C9_LocationTruncation ==
    [][LET ad == advertisement'
       IN  ( /\ HasPics(ad)
             /\ Len(PicsData(ad)) >= 10
             /\ PicsData(ad)[3] = 1 ) =>
             IF Len(PicsData(ad)) <= 17
             THEN /\ globals' = globals
                  /\ screen' = screen
                  /\ raised'.exc # "none"
             ELSE /\ latest_raw' = PicsData(ad)
                  /\ latest_info'.message_type = 1
                  /\ {"latitude", "longitude"} \subseteq DOMAIN latest_info'
      ]_vars

\* A 17-byte location payload has just been refused while a signal record
\* and its history entry are held.
C9_Witness ==
    /\ advertisement = Only(PICS_VENDOR,
                            Payload(1, LocationBody \o <<7, 7, 7>>, 17))
    /\ raised.exc = "struct.error"
    /\ latest_info # None
    /\ latest_info.message_type = 2
    /\ Len(log_history) >= 1

\* The entries of h that are at most window old at time now, in h's order.
RECURSIVE Within(_, _, _)
Within(h, now, window) ==
    IF h = <<>> THEN <<>>
    ELSE (IF now - Head(h).time <= window THEN <<Head(h)>> ELSE <<>>)
         \o Within(Tail(h), now, window)

\* q is p, or p with one entry added at the end after dropping p's first
\* entry if p held 5.
GrewFrom(p, q) ==
    \/ q = p
    \/ /\ Len(p) < 5
       /\ Len(q) = Len(p) + 1
       /\ SubSeq(q, 1, Len(p)) = p
    \/ /\ Len(p) = 5
       /\ Len(q) = 5
       /\ SubSeq(q, 1, 4) = Tail(p)

\* C10: the history block of a completed redraw lists, in storage order,
\* exactly the stored entries at most 30 s older than the clock reading
\* taken for it, and no callback removes an entry from log_history other
\* than by the eviction of the oldest of 5.
C10_WindowFilter ==
    [][/\ ( Decodes(advertisement') /\ raised'.exc = "none" ) =>
            screen'.recent = Within(log_history', clock', 30)
       /\ GrewFrom(log_history, log_history')
      ]_vars

\* A redraw at second 30 lists the entry stamped 0, exactly 30 s old.
C10_Witness ==
    /\ raised.exc = "none"
    /\ clock = 30
    /\ Len(log_history) >= 2
    /\ log_history[1].time = 0
    /\ screen.recent = log_history
    /\ Len(screen.history) = Len(log_history)

\* The blocks that read the held signal or the history next: the redraw
\* blocks of the running callback, and whatever runs once it has returned.
ReaderPoints == {"idle", "draw", "recent"}

UnknownEvent(ad) ==
    /\ HasPics(ad)
    /\ Len(PicsData(ad)) >= 10
    /\ PicsData(ad)[3] \notin {0, 1, 2}

\* C11: every record that decodes, of whatever message type, becomes the
\* latest record; a payload of at least 10 bytes with a message type other
\* than 0, 1, 2 decodes without error to a record that has the type, the
\* message id and the 8-digit intersection id and nothing else, becomes the
\* latest record, and leaves the held signal record and the history alone.
\* No error is raised from the decoder (source lines 10 to 36); the redraw
\* that follows may still fail on a held record of fewer than two phases.
C11_EveryRecordIsLatest ==
    [][LET ad == advertisement'
       IN  /\ Decodes(ad) =>
                 /\ latest_info' = Decoded(ad)
                 /\ latest_raw' = PicsData(ad)
           /\ UnknownEvent(ad) =>
                 /\ Decodes(ad)
                 /\ raised'.line \notin 10..36
                 /\ DOMAIN latest_info' =
                        {"message_type", "message_id", "intersection_id"}
                 /\ latest_info'.message_type = PicsData(ad)[3]
                 /\ latest_info'.message_id = PicsData(ad)[4]
                 /\ Len(latest_info'.intersection_id) = 8
                 /\ last_signal_info' = last_signal_info
                 /\ log_history' = log_history]_vars

\* A record of message type 255 is the latest one while a signal record is
\* held and logged.
C11_Witness ==
    /\ UnknownEvent(advertisement)
    /\ latest_info # None
    /\ latest_info.message_type = 255
    /\ latest_raw = PicsData(advertisement)
    /\ last_signal_info # None
    /\ Len(log_history) >= 2

(* ------------------------------------------------------------------ *)
(* The decoder, payload by payload                                     *)
(* ------------------------------------------------------------------ *)

\* The latest record is a signal record decoded from a payload that has
\* at least the ten header bytes.
LatestIsSignal ==
    /\ latest_info # None
    /\ latest_info.message_type = 2
    /\ Len(latest_raw) >= 10

\* C12: a signal payload of L >= 10 bytes decodes to exactly min(6, L - 10)
\* phases, phase i (from 0) read from the byte at offset 10 + i; no phase
\* comes from beyond the payload, and bytes from offset 16 on are ignored.
C12_PhaseCount ==
    LatestIsSignal =>
        LET ps == latest_info.pedestrian_signals
        IN  /\ Len(ps) = Min(6, Len(latest_raw) - 10)
            /\ \A i \in 0..(Len(ps) - 1) :
                   ps[i + 1] = SignalPhase(latest_raw[10 + i + 1])

\* A payload of 19 bytes gave six phases, one of 13 bytes would give three.
C12_Witness ==
    /\ LatestIsSignal
    /\ Len(latest_raw) = 19
    /\ Len(latest_info.pedestrian_signals) = 6
    /\ Len(pedestrian_signals(SubSeq(latest_raw, 1, 13))) = 3

\* The byte that phase i (from 1) of the latest signal record was read from.
SignalByte(i) == latest_raw[10 + i]

\* C13: for every signal byte b in 0..255 the raw remaining value is the
\* high nibble of b; remaining_time is raw + 1 for raw 0..7 and -1 for raw
\* 8..15, so it lies in {-1} \cup 1..8 and does not depend on the low nibble.
C13_RemainingTime ==
    LatestIsSignal =>
        \A i \in 1..Len(latest_info.pedestrian_signals) :
            LET remaining_raw == SignalByte(i) \div 16
                remaining_time ==
                    latest_info.pedestrian_signals[i].remaining_time
            IN  /\ remaining_raw \in 0..7 => remaining_time = remaining_raw + 1
                /\ remaining_raw \in 8..15 => remaining_time = -1
                /\ remaining_time \in {-1} \cup 1..8

\* Byte 0x7F: raw 7 with low nibble 15 decodes to 8 seconds.
C13_Witness ==
    /\ LatestIsSignal
    /\ Len(latest_raw) = 11
    /\ SignalByte(1) = 127
    /\ latest_info.pedestrian_signals[1].remaining_time = 8

\* The state the specification calls BlinkingGreen is the string of line 32.
BlinkingGreen == "BlinkGreen"

\* C14: for every signal byte b in 0..255 the signal state depends on the
\* low nibble of b alone: 0 is NoSignal, 1 Red, 2 BlinkingGreen, 3 Green,
\* 4 None, and each of 5..15 is Unknown.
C14_SignalState ==
    LatestIsSignal =>
        \A i \in 1..Len(latest_info.pedestrian_signals) :
            LET nibble == SignalByte(i) % 16
                signal_state ==
                    latest_info.pedestrian_signals[i].signal_state
            IN  /\ nibble = 0 => signal_state = "NoSignal"
                /\ nibble = 1 => signal_state = "Red"
                /\ nibble = 2 => signal_state = BlinkingGreen
                /\ nibble = 3 => signal_state = "Green"
                /\ nibble = 4 => signal_state = "None"
                /\ nibble \in 5..15 => signal_state = "Unknown"

\* Byte 0xF4: low nibble 4 under a high nibble of 15 decodes to None.
C14_Witness ==
    /\ LatestIsSignal
    /\ Len(latest_raw) = 11
    /\ SignalByte(1) = 244
    /\ latest_info.pedestrian_signals[1].signal_state = "None"

\* The latest record is an identifier record decoded from a payload that
\* has at least the ten header bytes.
LatestIsIdentifier ==
    /\ latest_info # None
    /\ latest_info.message_type = 0
    /\ Len(latest_raw) >= 10

\* The text of payload[10:24] of the latest payload: at most 14 bytes.
IdentifierText ==
    decode_ignore(SubSeq(latest_raw, 11, Min(24, Len(latest_raw))))

\* The positions of text t that hold another character than NUL.
NonNul(t) == { k \in 1..Len(t) : t[k] # 0 }

Lowest(S) == CHOOSE k \in S : \A j \in S : k <= j

Highest(S) == CHOOSE k \in S : \A j \in S : j <= k

\* Text t without the NUL characters at its end.
TrailingStripped(t) ==
    IF NonNul(t) = {} THEN <<>> ELSE SubSeq(t, 1, Highest(NonNul(t)))

\* Text t without the NUL characters at its start and at its end.
BothStripped(t) ==
    IF NonNul(t) = {} THEN <<>>
    ELSE SubSeq(t, Lowest(NonNul(t)), Highest(NonNul(t)))

\* C15 as claimed: the identifier of a type-0 payload is the text of
\* payload[10:24] with only the trailing NUL characters stripped, those at
\* the start and in the middle kept.
C15_TrailingNulOnly ==
    LatestIsIdentifier =>
        latest_info.identifier = TrailingStripped(IdentifierText)

\* C15: the identifier of a type-0 payload is the text of payload[10:24]
\* (at most 14 bytes, undecodable bytes dropped) with the NUL characters
\* stripped at both ends and those in the middle kept; a payload of exactly
\* 10 bytes gives the empty identifier, and no byte content makes the
\* decoder (source lines 10 to 36) raise an error.
C15_Identifier ==
    /\ LatestIsIdentifier =>
           /\ latest_info.identifier = BothStripped(IdentifierText)
           /\ Len(latest_raw) = 10 => latest_info.identifier = <<>>
    /\ (HasPics(advertisement) /\ Len(PicsData(advertisement)) >= 10
            /\ PicsData(advertisement)[3] = 0) =>
           /\ raised.line \notin 10..36
           /\ latest_raw = PicsData(advertisement)
           /\ LatestIsIdentifier

\* Bytes 00 00 "PICS" 00 "-01" 00 00 00 00 "ZZ": the identifier is "PICS",
\* NUL, "-01": cut at 14 bytes, stripped at both ends, the middle NUL kept.
C15_Witness ==
    /\ LatestIsIdentifier
    /\ Len(latest_raw) = 26
    /\ latest_raw[11] = 0
    /\ latest_info.identifier = <<80, 73, 67, 83, 0, 45, 48, 49>>

\* The latest record is a location record.
LatestIsLocation ==
    /\ latest_info # None
    /\ latest_info.message_type = 1

\* The signed 32-bit big-endian integer in the four bytes of the latest
\* payload from offset a: the low 31 bits, less 2^31 when the top bit is set.
BigEndianSigned(a) ==
    LET low == (((latest_raw[a + 1] % 128) * 256 + latest_raw[a + 2]) * 256
                + latest_raw[a + 3]) * 256 + latest_raw[a + 4]
    IN  IF latest_raw[a + 1] >= 128 THEN (low - 2147483647) - 1 ELSE low

\* C16: for a type-1 payload of at least 18 bytes, latitude and longitude are
\* the signed 32-bit big-endian integers of payload[10:14] and payload[14:18],
\* each divided by 1,000,000: bytes 00 0F 42 40 are 1,000,000 micro-degrees,
\* that is 1.0, and a set top bit makes the value negative.
C16_Coordinates ==
    /\ LatestIsLocation =>
           /\ Len(latest_raw) >= 18
           /\ latest_info.latitude =
                  [num |-> BigEndianSigned(10), den |-> 1000000]
           /\ latest_info.longitude =
                  [num |-> BigEndianSigned(14), den |-> 1000000]
           /\ latest_info.latitude.num < 0 <=> latest_raw[11] >= 128
           /\ latest_info.longitude.num < 0 <=> latest_raw[15] >= 128
           /\ SubSeq(latest_raw, 11, 14) = <<0, 15, 66, 64>> =>
                  latest_info.latitude.num = latest_info.latitude.den
    /\ (HasPics(advertisement) /\ Len(PicsData(advertisement)) >= 18
            /\ PicsData(advertisement)[3] = 1) =>
           /\ raised.line \notin 10..36
           /\ latest_raw = PicsData(advertisement)
           /\ LatestIsLocation

\* Bytes 00 0F 42 40 FF FF FF FF: latitude 1.0, longitude -0.000001.
C16_Witness ==
    /\ LatestIsLocation
    /\ SubSeq(latest_raw, 11, 18) = <<0, 15, 66, 64, 255, 255, 255, 255>>
    /\ latest_info.latitude = [num |-> 1000000, den |-> 1000000]
    /\ latest_info.longitude = [num |-> -1, den |-> 1000000]

(* ------------------------------------------------------------------ *)
(* The history and the clock                                           *)
(* ------------------------------------------------------------------ *)

\* The advertisement decodes to a signal record that the ingest logs: one
\* with at least two phases.
SignalIngest(ad) ==
    SignalEvent(ad) /\ Len(Decoded(ad).pedestrian_signals) >= 2

\* The history block of the redraw ends with the entry that this callback
\* created from the advertisement.
ShowsNewEntry(ad, t, shown) ==
    /\ shown.recent # <<>>
    /\ Last(shown.recent) = EntryOf(Decoded(ad), t)
    /\ shown.history # <<>>
    /\ Last(shown.history) =
           row(t, Decoded(ad).pedestrian_signals[1],
               Decoded(ad).pedestrian_signals[2])

\* C17 as claimed: right after a callback that ingests a signal record of at
\* least two phases, the history it has drawn is not empty and ends with the
\* entry created by this callback, the clock being read anew for the filter
\* and never running backwards.
C17_NewEntryShown ==
    [][SignalIngest(advertisement') =>
           ShowsNewEntry(advertisement', latest_timestamp', screen')]_vars

\* C17: the same, provided that no more than 30 s pass between the clock
\* reading that stamps the entry (line 78) and the one taken for the filter
\* (line 116); when more pass, the history drawn by that callback is empty.
C17_NewEntryShownInTime ==
    [][SignalIngest(advertisement') =>
           /\ Last(log_history') =
                  EntryOf(Decoded(advertisement'), latest_timestamp')
           /\ clock' - latest_timestamp' <= 30 =>
                  ShowsNewEntry(advertisement', latest_timestamp', screen')
           /\ clock' - latest_timestamp' > 30 =>
                  screen'.recent = <<>> /\ screen'.history = <<>>]_vars

\* The redraw took 16 s: it lists the entry of this callback, stamped 15, and
\* no longer the one stamped 0.
C17_Witness ==
    /\ SignalIngest(advertisement)
    /\ latest_raw = PicsData(advertisement)
    /\ latest_timestamp = 15
    /\ clock = 31
    /\ Len(log_history) >= 2
    /\ log_history[1].time = 0
    /\ screen.recent = <<EntryOf(latest_info, 15)>>
    /\ Len(screen.history) = 1

\* Sequence s is what remains of sequence h after dropping some first items.
IsSuffix(s, h) ==
    \E k \in 0..Len(h) : s = SubSeq(h, k + 1, Len(h))

\* C18: with a clock that never runs backwards, the time stamps of the stored
\* entries never decrease in insertion order, in every reachable state; so
\* whatever the window filter returns, at the present or any later reading of
\* the clock, is a contiguous suffix of the stored history, and so is the
\* history block on the screen.
C18_TimestampsOrdered ==
    /\ \A i \in 1..Len(log_history) : \A j \in i..Len(log_history) :
           log_history[i].time <= log_history[j].time
    /\ \A now \in clock..(clock + 31) :
           IsSuffix(recent_entries(log_history, now), log_history)
    /\ IsSuffix(screen.recent, log_history)

\* Three entries of different times are stored, and the filter has returned
\* some but not all of them.
C18_Witness ==
    /\ Len(log_history) >= 3
    /\ log_history[1].time < log_history[2].time
    /\ log_history[2].time < log_history[3].time
    /\ screen.recent # <<>>
    /\ Len(screen.recent) < Len(log_history)
    /\ IsSuffix(screen.recent, log_history)

(* ------------------------------------------------------------------ *)
(* The retained state between callbacks                                *)
(* ------------------------------------------------------------------ *)

\* C19: between callbacks, latest_info, latest_raw and latest_timestamp are
\* all unset or all set, and then latest_info is what latest_raw decodes to;
\* a history that is not empty implies a held signal record; a held signal
\* record implies a latest record; and a held signal record is of type 2.
C19_RetainedState ==
    /\ IF latest_info = None
       THEN latest_raw = None /\ latest_timestamp = None
       ELSE /\ latest_raw # None
            /\ process_pics(latest_raw) = Return(latest_info)
            /\ latest_timestamp \in 0..clock
    /\ log_history # <<>> => last_signal_info # None
    /\ last_signal_info # None =>
           /\ latest_info # None
           /\ last_signal_info.message_type = 2

\* An identifier record is the latest one while an older signal record is
\* held and its entry is in the history.
C19_Witness ==
    /\ latest_info # None
    /\ latest_info.message_type = 0
    /\ process_pics(latest_raw).val = latest_info
    /\ last_signal_info # None
    /\ last_signal_info.message_type = 2
    /\ log_history # <<>>
    /\ latest_timestamp > Last(log_history).time

====
